---- MODULE Spec2Model ----
(***************************************************************************)
(* The resource registry of ff/serving/client/resources.py: the resource   *)
(* value objects, ResourceState.add / sorted_list / create_all, and the    *)
(* remote stub the apply phase talks to.                                   *)
(*                                                                         *)
(* Python str values that the code compares or tests for emptiness (names  *)
(* and variants) are sequences of character codes (1 = "a", 2 = "b"), so   *)
(* that "" is <<>> and str ordering is lexicographic.  Type tags, class    *)
(* names and exception names are TLA+ strings.                             *)
(***************************************************************************)
EXTENDS Integers, Sequences, FiniteSets, TLC

VARIABLES
    state,          \* ResourceState.__state: (type, name) -> resource
    create_list,    \* ResourceState.__create_list
    last            \* what the caller observed of the last operation

vars == <<state, create_list, last>>

\* The registry holds at most this many resources.
MaxResources == 3

-----------------------------------------------------------------------------
(* Values the callers pass in.                                             *)

NameAB == <<1, 2>>
NameB == <<2>>
VariantA == <<1>>
VariantB == <<2>>
Empty == <<>>

Names == {NameAB, NameB}

\* valid_name_variant(nvar): nvar[0] != "" and nvar[1] != ""
valid_name_variant(nvar) == nvar[1] # Empty /\ nvar[2] # Empty

RedisConfig ==
    [class |-> "RedisConfig", host |-> "h", port |-> "6379", password |-> "p", db |-> "0"]

SnowflakeConfig ==
    [class |-> "SnowflakeConfig", account |-> "acct", database |-> "db",
     organization |-> "org", username |-> "u", password |-> "p", schema |-> "s"]

PostgresConfig ==
    [class |-> "PostgresConfig", host |-> "h", port |-> "5432", database |-> "db",
     user |-> "u", password |-> "p"]

\* Config = Union[RedisConfig, SnowflakeConfig, PostgresConfig]
Config == {RedisConfig, SnowflakeConfig, PostgresConfig}

\* The methods each config class defines (an undefined one raises AttributeError).
config_methods(config) ==
    CASE config.class = "RedisConfig" -> {"software"}
      [] config.class = "SnowflakeConfig" -> {"software", "type", "serialize"}
      [] config.class = "PostgresConfig" -> {"software"}

config_software(config) ==
    CASE config.class = "RedisConfig" -> "redis"
      [] config.class = "SnowflakeConfig" -> "Snowflake"
      [] config.class = "PostgresConfig" -> "postgres"

\* SnowflakeConfig.type
SnowflakeConfig_type(config) == "SNOWFLAKE_OFFLINE"

\* SnowflakeConfig.serialize: the JSON object of five of the six fields.
SnowflakeConfig_serialize(config) ==
    [Username |-> config.username, Password |-> config.password,
     Organization |-> config.organization, Account |-> config.account,
     Database |-> config.database]

User(name) == [class |-> "User", name |-> name]

Provider(name, config) ==
    [class |-> "Provider", name |-> name, function |-> "f", config |-> config,
     description |-> "d", team |-> "t", software |-> config_software(config)]

PrimaryData == [class |-> "PrimaryData", location |-> [class |-> "SQLTable", name |-> "tbl"]]

SQLTransformation == [class |-> "SQLTransformation", query |-> "q"]

Source(name, variant, definition) ==
    [class |-> "Source", name |-> name, variant |-> variant, definition |-> definition,
     owner |-> "o", provider |-> NameAB, description |-> "d"]

Entity(name) == [class |-> "Entity", name |-> name, description |-> "d"]

ResourceColumnMapping == [class |-> "ResourceColumnMapping", entity |-> "e", value |-> "v", timestamp |-> "ts"]

Feature(name, variant) ==
    [class |-> "Feature", name |-> name, variant |-> variant, value_type |-> "float",
     entity |-> NameAB, owner |-> "o", provider |-> NameAB, description |-> "d",
     location |-> ResourceColumnMapping]

Label(name, variant) ==
    [class |-> "Label", name |-> name, variant |-> variant, value_type |-> "float",
     entity |-> NameAB, owner |-> "o", description |-> "d", location |-> ResourceColumnMapping]

\* __post_init__ without the check for an empty features list.
TrainingSet_post_init_no_length_check(label, features) ==
    IF ~valid_name_variant(label) THEN "Label must be set"
    ELSE IF \E i \in 1..Len(features) : ~valid_name_variant(features[i]) THEN "Invalid Feature"
    ELSE ""

\* TrainingSet.__post_init__: the exception message it raises, "" when it returns.
TrainingSet_post_init(label, features) ==
    IF ~valid_name_variant(label) THEN "Label must be set"
    ELSE IF Len(features) = 0 THEN "A training-set must have atleast one feature"
    ELSE IF \E i \in 1..Len(features) : ~valid_name_variant(features[i]) THEN "Invalid Feature"
    ELSE ""

\* TrainingSet(...): the constructed object, or the ValueError of __post_init__.
TrainingSet(name, variant, label, features) ==
    LET msg == TrainingSet_post_init(label, features) IN
    IF msg # ""
    THEN [raised |-> "ValueError", message |-> msg]
    ELSE [raised |-> "none",
          object |-> [class |-> "TrainingSet", name |-> name, variant |-> variant,
                      owner |-> "o", label |-> label, features |-> features,
                      description |-> "d"]]

\* The label and features arguments callers try.
LabelArgs == {<<NameB, VariantA>>, <<Empty, VariantA>>, <<NameB, Empty>>}
FeaturesArgs ==
    {<<>>, <<<<NameB, VariantA>>>>, <<<<NameB, VariantA>>, <<NameB, Empty>>>>,
     <<<<Empty, VariantA>>>>}

TrainingSetArgs ==
    {a \in [name : {NameAB}, variant : {VariantA}, label : LabelArgs, features : FeaturesArgs] :
        a.label = <<NameB, VariantA>> \/ a.features = <<<<NameB, VariantA>>>>}

\* The training sets whose construction returned.
TrainingSets ==
    {TrainingSet(a.name, a.variant, a.label, a.features).object :
        a \in {b \in TrainingSetArgs :
                 TrainingSet(b.name, b.variant, b.label, b.features).raised = "none"}}

\* The objects callers pass to add (Resource is a Union that includes PrimaryData).
\* Sources and Features name provider "ab", Features and Labels name entity "ab",
\* and the training sets name Label ("b", "a") and Feature ("b", "a").
Resources ==
    {User(n) : n \in Names}
    \cup {Provider(NameAB, SnowflakeConfig), Provider(NameAB, RedisConfig),
          Provider(NameB, PostgresConfig)}
    \cup {Source(NameAB, VariantA, PrimaryData), Source(NameAB, VariantB, SQLTransformation)}
    \cup {Entity(NameAB)}
    \cup {Feature(NameB, VariantA)}
    \cup {Label(NameB, VariantA)}
    \cup TrainingSets
    \cup {PrimaryData}

-----------------------------------------------------------------------------
(* Attribute lookup on resources.                                          *)

\* resource.type(): the tag, or "" where the class defines no type (AttributeError).
type(resource) ==
    CASE resource.class = "User" -> "user"
      [] resource.class = "Provider" -> "provider"
      [] resource.class = "Source" -> "source"
      [] resource.class = "Entity" -> "entity"
      [] resource.class = "Feature" -> "feature"
      [] resource.class = "Label" -> "label"
      [] resource.class = "TrainingSet" -> "training-set"
      [] OTHER -> ""

\* hasattr(resource, attr)
hasattr(resource, attr) == attr \in DOMAIN resource

-----------------------------------------------------------------------------
(* Wire-message construction: the _create methods.                         *)

\* User._create up to the stub call.
User_create(self) ==
    [raised |-> "none", rpc |-> "CreateUser", msg |-> [name |-> self.name]]

\* Provider._create up to the stub call: the keyword arguments are evaluated in
\* order, and self.config.type() is the first that a config may not define.
Provider_create(self) ==
    IF "type" \notin config_methods(self.config) THEN [raised |-> "AttributeError"]
    ELSE IF "software" \notin config_methods(self.config) THEN [raised |-> "AttributeError"]
    ELSE IF "serialize" \notin config_methods(self.config) THEN [raised |-> "AttributeError"]
    ELSE [raised |-> "none", rpc |-> "CreateProvider",
          msg |-> [name |-> self.name, description |-> self.description,
                   type |-> SnowflakeConfig_type(self.config),
                   software |-> config_software(self.config),
                   team |-> self.team,
                   serialized_config |-> SnowflakeConfig_serialize(self.config)]]

\* PrimaryData.kwargs / SQLTransformation.kwargs
kwargs(definition) ==
    IF definition.class = "PrimaryData"
    THEN [primaryData |-> [table |-> [name |-> definition.location.name]]]
    ELSE [transformation |-> [SQLTransformation |-> [query |-> definition.query]]]

\* Source._create up to the stub call.
Source_create(self) ==
    [raised |-> "none", rpc |-> "CreateSourceVariant",
     msg |-> [name |-> self.name, variant |-> self.variant, owner |-> self.owner,
              description |-> self.description, provider |-> self.provider]
             @@ kwargs(self.definition)]

\* resource._create(stub) up to the stub call: Entity, Feature, Label and
\* TrainingSet define no _create, so the attribute lookup raises.
build_create(resource) ==
    CASE resource.class = "User" -> User_create(resource)
      [] resource.class = "Provider" -> Provider_create(resource)
      [] resource.class = "Source" -> Source_create(resource)
      [] OTHER -> [raised |-> "AttributeError"]

-----------------------------------------------------------------------------
(* The remote stub.  A call returns ("ok") or raises: _InactiveRpcError    *)
(* with status ALREADY_EXISTS or UNAVAILABLE, or an exception that is no   *)
(* RPC error (ValueError: the channel is closed).                          *)

Outcomes == {"ok", "ALREADY_EXISTS", "UNAVAILABLE", "ValueError"}

\* isinstance(e, grpc._channel._InactiveRpcError)
is_InactiveRpcError(outcome) == outcome \in {"ALREADY_EXISTS", "UNAVAILABLE"}

\* A stub answers its i-th call with base, except the k-th, which it fails with fail.
StubOf(base, k, fail) == [i \in 1..MaxResources |-> IF i = k THEN fail ELSE base]

\* The stubs callers pass: every call succeeds, every call finds the resource
\* existing, or one call of an otherwise succeeding stub fails otherwise.
Stubs ==
    {StubOf(base, 0, base) : base \in {"ok", "ALREADY_EXISTS"}}
    \cup {StubOf("ok", k, fail) : k \in 1..MaxResources, fail \in {"UNAVAILABLE", "ValueError"}}

-----------------------------------------------------------------------------
(* ResourceState.                                                          *)

\* The empty dict.
EmptyState == [k \in {} |-> k]

\* " variant " in the error message.
VariantWord == <<0>>

\* ResourceRedefinedError.__init__: the message, as its type tag and resourceId.
ResourceRedefinedError(resource) ==
    LET variantStr == IF hasattr(resource, "variant")
                      THEN VariantWord \o resource.variant ELSE Empty
        resourceId == resource.name \o variantStr
    IN [type |-> type(resource), resourceId |-> resourceId]

\* add without the membership check: a redefinition overwrites the map entry.
add_without_key_check(st, cl, resource) ==
    IF type(resource) = "" \/ ~hasattr(resource, "name")
    THEN [state |-> st, create_list |-> cl, raised |-> "AttributeError"]
    ELSE LET key == <<type(resource), resource.name>> IN
         [state |-> [k \in DOMAIN st \cup {key} |-> IF k = key THEN resource ELSE st[k]],
          create_list |-> Append(cl, resource), raised |-> "none"]

\* add that appends to the creation sequence before it checks the key.
add_append_before_check(st, cl, resource) ==
    IF type(resource) = "" \/ ~hasattr(resource, "name")
    THEN [state |-> st, create_list |-> cl, raised |-> "AttributeError"]
    ELSE LET key == <<type(resource), resource.name>> IN
         IF key \in DOMAIN st
         THEN [state |-> st, create_list |-> Append(cl, resource),
               raised |-> "ResourceRedefinedError",
               message |-> ResourceRedefinedError(resource)]
         ELSE [state |-> [k \in DOMAIN st \cup {key} |-> IF k = key THEN resource ELSE st[k]],
               create_list |-> Append(cl, resource), raised |-> "none"]

\* add with the variant made part of the key.
add_variant_in_key(st, cl, resource) ==
    IF type(resource) = "" \/ ~hasattr(resource, "name")
    THEN [state |-> st, create_list |-> cl, raised |-> "AttributeError"]
    ELSE LET key == <<type(resource), resource.name,
                      IF hasattr(resource, "variant") THEN resource.variant ELSE Empty>> IN
         IF key \in DOMAIN st
         THEN [state |-> st, create_list |-> cl, raised |-> "ResourceRedefinedError",
               message |-> ResourceRedefinedError(resource)]
         ELSE [state |-> [k \in DOMAIN st \cup {key} |-> IF k = key THEN resource ELSE st[k]],
               create_list |-> Append(cl, resource), raised |-> "none"]

\* ResourceState.add: the registry after the call and the exception raised.
add(st, cl, resource) ==
    IF type(resource) = "" \/ ~hasattr(resource, "name")
    THEN [state |-> st, create_list |-> cl, raised |-> "AttributeError"]
    ELSE LET key == <<type(resource), resource.name>> IN
         IF key \in DOMAIN st
         THEN [state |-> st, create_list |-> cl, raised |-> "ResourceRedefinedError",
               message |-> ResourceRedefinedError(resource)]
         ELSE [state |-> [k \in DOMAIN st \cup {key} |-> IF k = key THEN resource ELSE st[k]],
               create_list |-> Append(cl, resource), raised |-> "none"]

\* resource_order with training-set ahead of label.
resource_order_label_last(t) ==
    CASE t = "user" -> 0
      [] t = "provider" -> 1
      [] t = "source" -> 2
      [] t = "entity" -> 3
      [] t = "feature" -> 4
      [] t = "training-set" -> 5
      [] t = "label" -> 6

\* resource_order with entity ahead of source.
resource_order_entity_first(t) ==
    CASE t = "user" -> 0
      [] t = "provider" -> 1
      [] t = "entity" -> 2
      [] t = "source" -> 3
      [] t = "feature" -> 4
      [] t = "label" -> 5
      [] t = "training-set" -> 6

\* resource_order of sorted_list
resource_order(t) ==
    CASE t = "user" -> 0
      [] t = "provider" -> 1
      [] t = "source" -> 2
      [] t = "entity" -> 3
      [] t = "feature" -> 4
      [] t = "label" -> 5
      [] t = "training-set" -> 6

\* to_sort_key of sorted_list
to_sort_key(res) ==
    LET resource_num == resource_order(type(res))
        variant == IF hasattr(res, "variant") THEN res.variant ELSE Empty
    IN <<resource_num, res.name, variant>>

\* Python's < on str: lexicographic by character.
str_lt(s, t) ==
    \E i \in 1..Len(t) :
        /\ \A j \in 1..(i - 1) : j <= Len(s) /\ s[j] = t[j]
        /\ (i > Len(s) \/ s[i] < t[i])

\* Python's < on the (int, str, str) sort keys.
key_lt(a, b) ==
    \/ a[1] < b[1]
    \/ a[1] = b[1] /\ str_lt(a[2], b[2])
    \/ a[1] = b[1] /\ a[2] = b[2] /\ str_lt(a[3], b[3])

\* sorted(values, key=to_sort_key): the least remaining value first.
RECURSIVE sorted(_)
sorted(values) ==
    IF values = {} THEN <<>>
    ELSE LET least == CHOOSE x \in values :
                        \A y \in values : ~key_lt(to_sort_key(y), to_sort_key(x))
         IN <<least>> \o sorted(values \ {least})

\* ResourceState.sorted_list
sorted_list(st) == sorted({st[k] : k \in DOMAIN st})

\* sorted_list sorting the creation sequence in place (list.sort).
sorted_list_in_place(st, cl) ==
    [state |-> st, create_list |-> sorted_list(st), result |-> sorted_list(st)]

\* A call of sorted_list: the registry after it (sorted() builds a new list
\* and assigns no field) and the list returned.
sorted_list_call(st, cl) ==
    [state |-> st, create_list |-> cl, result |-> sorted_list(st)]

\* The loop of create_all from position i on; acc is what has happened so far:
\* the resources _create was invoked on, the stub calls issued (with their
\* outcome), the names printed as already existing, the exception propagated.
RECURSIVE create_loop(_, _, _, _)
create_loop(cl, i, stub, acc) ==
    IF i > Len(cl) THEN acc
    ELSE LET resource == cl[i]
             built == build_create(resource)
             tried == [acc EXCEPT !.attempted = Append(@, resource)]
         IN IF built.raised # "none"
            THEN [tried EXCEPT !.raised = built.raised]
            ELSE LET outcome == stub[Len(acc.calls) + 1]
                     called == [tried EXCEPT !.calls = Append(@,
                                   [resource |-> resource, rpc |-> built.rpc,
                                    msg |-> built.msg, outcome |-> outcome])]
                 IN IF outcome = "ok"
                    THEN create_loop(cl, i + 1, stub, called)
                    ELSE IF is_InactiveRpcError(outcome)
                    THEN create_loop(cl, i + 1, stub,
                             [called EXCEPT !.swallowed = Append(@, resource.name)])
                    ELSE [called EXCEPT !.raised = outcome]

\* create_all iterating the sorted listing.
create_order_sorted(st, cl) == sorted_list(st)

\* The sequence create_all iterates: self.__create_list.
create_order(st, cl) == cl

\* create_all that empties the registry once it has walked it.
create_all_consuming(st, cl, stub) ==
    [state |-> EmptyState, create_list |-> <<>>,
     observed |-> create_loop(create_order(st, cl), 1, stub,
        [attempted |-> <<>>, calls |-> <<>>, swallowed |-> <<>>, raised |-> "none"])]

\* ResourceState.create_all: the registry after the call (it assigns neither
\* field) and what the loop did.
create_all(st, cl, stub) ==
    [state |-> st, create_list |-> cl,
     observed |-> create_loop(create_order(st, cl), 1, stub,
        [attempted |-> <<>>, calls |-> <<>>, swallowed |-> <<>>, raised |-> "none"])]

-----------------------------------------------------------------------------
(* The operations as the caller runs them, one after another.              *)

Init ==
    /\ state = EmptyState
    /\ create_list = <<>>
    /\ last = [op |-> "init"]

\* TrainingSet(...) with arguments args.
Construct(args) ==
    /\ last' = [op |-> "TrainingSet", args |-> args]
                 @@ TrainingSet(args.name, args.variant, args.label, args.features)
    /\ UNCHANGED <<state, create_list>>

\* registry.add(resource)
Add(resource) ==
    LET res == add(state, create_list, resource) IN
    /\ Len(res.create_list) <= MaxResources
    /\ state' = res.state
    /\ create_list' = res.create_list
    /\ last' = [op |-> "add", arg |-> resource, raised |-> res.raised]
                 @@ (IF res.raised = "ResourceRedefinedError"
                     THEN [message |-> res.message] ELSE EmptyState)

\* registry.sorted_list()
SortedList ==
    LET res == sorted_list_call(state, create_list) IN
    /\ state' = res.state
    /\ create_list' = res.create_list
    /\ last' = [op |-> "sorted_list", result |-> res.result]

\* registry.create_all(stub); rerun: the operation before it was create_all too.
CreateAll(stub) ==
    LET res == create_all(state, create_list, stub) IN
    /\ state' = res.state
    /\ create_list' = res.create_list
    /\ last' = [op |-> "create_all", stub |-> stub, rerun |-> last.op = "create_all"]
                 @@ res.observed

Next ==
    \/ \E args \in TrainingSetArgs : Construct(args)
    \/ \E resource \in Resources : Add(resource)
    \/ SortedList
    \/ \E stub \in Stubs : CreateAll(stub)

Spec == Init /\ [][Next]_vars

-----------------------------------------------------------------------------
(* Vocabulary of the properties.                                           *)

\* The kinds that carry a variant.
VariantKinds == {"source", "feature", "label", "training-set"}

\* The operation just run was add of an object of one of the seven kinds.
IsAddOfResource(obs) == obs.op = "add" /\ type(obs.arg) # ""

\* A resource with the kind and name of r is among those added so far.
Registered(cl, r) ==
    \E i \in 1..Len(cl) : type(cl[i]) = type(r) /\ cl[i].name = r.name

\* Lexicographic order on names and variants.
RECURSIVE LexLess(_, _)
LexLess(s, t) ==
    IF t = <<>> THEN FALSE
    ELSE IF s = <<>> THEN TRUE
    ELSE IF Head(s) # Head(t) THEN Head(s) < Head(t)
    ELSE LexLess(Tail(s), Tail(t))

\* The priorities of the kinds: User=0 ... TrainingSet=6.
Priority(r) ==
    CASE r.class = "User" -> 0
      [] r.class = "Provider" -> 1
      [] r.class = "Source" -> 2
      [] r.class = "Entity" -> 3
      [] r.class = "Feature" -> 4
      [] r.class = "Label" -> 5
      [] r.class = "TrainingSet" -> 6

VariantOrEmpty(r) == IF type(r) \in VariantKinds THEN r.variant ELSE <<>>

\* r comes strictly before q in (kind priority, name, variant-or-empty) order.
Before(r, q) ==
    \/ Priority(r) < Priority(q)
    \/ Priority(r) = Priority(q) /\ LexLess(r.name, q.name)
    \/ Priority(r) = Priority(q) /\ r.name = q.name
         /\ LexLess(VariantOrEmpty(r), VariantOrEmpty(q))

Elements(seq) == {seq[i] : i \in 1..Len(seq)}

-----------------------------------------------------------------------------
(* Properties.                                                             *)

\* C1: once a resource of some kind and name has been added, an add of any
\* resource of that kind and name raises ResourceRedefinedError, also when the
\* variants differ, and the error carries the kind, the name and (for the
\* kinds that have one) the variant of the resource being added.
C1_RedefinitionRejected ==
    [][(IsAddOfResource(last') /\ Registered(create_list, last'.arg))
         => /\ last'.raised = "ResourceRedefinedError"
            /\ last'.message.type = type(last'.arg)
            /\ last'.message.resourceId =
                 IF type(last'.arg) \in VariantKinds
                 THEN last'.arg.name \o VariantWord \o last'.arg.variant
                 ELSE last'.arg.name]_vars

\* A Source was rejected whose variant differs from the registered Source's.
C1_Witness ==
    /\ last.op = "add"
    /\ last.raised = "ResourceRedefinedError"
    /\ type(last.arg) = "source"
    /\ \E i \in 1..Len(create_list) :
          /\ type(create_list[i]) = "source"
          /\ create_list[i].name = last.arg.name
          /\ create_list[i].variant # last.arg.variant

\* C2 (adds): an add of a resource whose kind and name are not registered
\* succeeds and appends the resource.
C2_FreshAddSucceeds ==
    (IsAddOfResource(last') /\ ~Registered(create_list, last'.arg))
       => last'.raised = "none" /\ create_list' = Append(create_list, last'.arg)

\* C2 (listing): sorted_list returns exactly the added resources, each once,
\* ascending in (kind priority, name, variant-or-empty).
C2_SortedListing ==
    last.op = "sorted_list" =>
       /\ Len(last.result) = Len(create_list)
       /\ Elements(last.result) = Elements(create_list)
       /\ \A i, j \in 1..Len(last.result) :
             i < j => Before(last.result[i], last.result[j])

\* C2: adds of resources with pairwise distinct (kind, name) all succeed, and
\* sorted_list then returns exactly those resources in ascending order of
\* (kind priority, name, variant-or-empty), User=0 ... TrainingSet=6.
C2_DistinctAddsSortedList == [][C2_FreshAddSucceeds]_vars /\ []C2_SortedListing

\* sorted_list returned three resources that were added in another order.
C2_Witness ==
    /\ last.op = "sorted_list"
    /\ Len(last.result) = MaxResources
    /\ last.result # create_list
    /\ \E i \in 1..Len(last.result) : type(last.result[i]) = "entity"
    /\ \E i \in 1..Len(last.result) : type(last.result[i]) = "source"

\* Position of resource r in the creation sequence.
Pos(cl, r) == CHOOSE p \in 1..Len(cl) : cl[p] = r

\* Every call the stub receives is answered with outcome.
StubAlways(stub, outcome) == \A i \in DOMAIN stub : stub[i] = outcome

\* C3: with a stub that raises "already exists" on every call, create_all
\* returns without raising and has issued exactly one call per registered
\* resource, in insertion order.
C3_AllAlreadyExist ==
    (last.op = "create_all" /\ StubAlways(last.stub, "ALREADY_EXISTS"))
       => /\ last.raised = "none"
          /\ Len(last.calls) = Len(create_list)
          /\ \A i \in 1..Len(create_list) : last.calls[i].resource = create_list[i]

\* C4: when the call for the k-th registered resource fails with anything but
\* "already exists", create_all raises that failure, having attempted exactly
\* resources 1..k.
C4_OtherFailureAborts ==
    last.op = "create_all" =>
       \A c \in 1..Len(last.calls) :
          last.calls[c].outcome \notin {"ok", "ALREADY_EXISTS"}
             => /\ last.raised = last.calls[c].outcome
                /\ last.attempted =
                     SubSeq(create_list, 1, Pos(create_list, last.calls[c].resource))

\* C5: the calls create_all issues are for registered resources and follow the
\* order the resources were added in: the call for a resource added earlier
\* comes before the call for one added later.
C5_CallsInInsertionOrder ==
    last.op = "create_all" =>
       /\ \A c \in 1..Len(last.calls) : last.calls[c].resource \in Elements(create_list)
       /\ \A c, d \in 1..Len(last.calls) :
             c < d => Pos(create_list, last.calls[c].resource)
                        < Pos(create_list, last.calls[d].resource)

\* A Source added before a User was created before that User.
C5_Witness ==
    /\ last.op = "create_all"
    /\ Len(last.calls) >= 2
    /\ type(last.calls[1].resource) = "source"
    /\ type(last.calls[2].resource) = "user"
    /\ sorted_list(state) # create_list

\* C6: with a stub that accepts every call, create_all returns and has issued a
\* create call for every registered resource, whatever its kind.
C6_EveryKindCreated ==
    (last.op = "create_all" /\ StubAlways(last.stub, "ok"))
       => /\ last.raised = "none"
          /\ \A p \in 1..Len(create_list) :
                \E c \in 1..Len(last.calls) : last.calls[c].resource = create_list[p]

\* The arguments satisfy the TrainingSet rules: label and every feature have a
\* non-empty name and variant, and there is at least one feature.
ValidTrainingSet(label, features) ==
    /\ label[1] # <<>> /\ label[2] # <<>>
    /\ features # <<>>
    /\ \A f \in Elements(features) : f[1] # <<>> /\ f[2] # <<>>

\* C7: TrainingSet construction returns iff the label and every feature have
\* a non-empty name and variant and there is at least one feature, and raises
\* otherwise; no TrainingSet in the registry breaks these rules.
C7_TrainingSetValidated ==
    /\ last.op = "TrainingSet" =>
          /\ last.raised = "none" <=> ValidTrainingSet(last.args.label, last.args.features)
          /\ last.raised \in {"none", "ValueError"}
    /\ \A r \in Elements(create_list) \cup {state[k] : k \in DOMAIN state} :
          r.class = "TrainingSet" => ValidTrainingSet(r.label, r.features)

\* A construction with no features failed while a TrainingSet is registered.
C7_Witness ==
    /\ last.op = "TrainingSet"
    /\ last.raised = "ValueError"
    /\ last.args.features = <<>>
    /\ valid_name_variant(last.args.label)
    /\ \E r \in Elements(create_list) : r.class = "TrainingSet"

\* C8: an add that raises ResourceRedefinedError leaves the uniqueness map and
\* the creation sequence as they were, and the add after it of a resource with
\* an unregistered (kind, name) succeeds.
C8_FailedAddChangesNothing ==
    [][/\ (last'.op = "add" /\ last'.raised = "ResourceRedefinedError")
            => state' = state /\ create_list' = create_list
       /\ (/\ last.op = "add" /\ last.raised = "ResourceRedefinedError"
           /\ IsAddOfResource(last') /\ ~Registered(create_list, last'.arg))
            => /\ last'.raised = "none"
               /\ state'[<<type(last'.arg), last'.arg.name>>] = last'.arg
               /\ \A k \in DOMAIN state : state'[k] = state[k]]_vars

\* An add was rejected; the key still maps to the resource declared first,
\* and there is room for another add.
C8_Witness ==
    /\ last.op = "add"
    /\ last.raised = "ResourceRedefinedError"
    /\ state[<<type(last.arg), last.arg.name>>] # last.arg
    /\ state[<<type(last.arg), last.arg.name>>] \in Elements(create_list)
    /\ Len(create_list) < MaxResources

\* C9 as stated: once create_all has returned the registry holds no state, and
\* a create_all that follows a create_all issues no calls.
C9_SingleUse ==
    (last.op = "create_all" /\ last.raised = "none") =>
       /\ state = EmptyState
       /\ create_list = <<>>
       /\ last.rerun => last.calls = <<>>

\* C9 amended: create_all leaves the uniqueness map and the creation sequence
\* unchanged; a create_all that follows a create_all starts again at the first
\* registered resource and, given a stub that answers alike, does what the
\* first did.
C9_RegistryReusable ==
    [][last'.op = "create_all"
         => /\ state' = state /\ create_list' = create_list
            /\ create_list # <<>> => last'.attempted[1] = create_list[1]
            /\ (last.op = "create_all" /\ last'.stub = last.stub)
                 => /\ last'.calls = last.calls
                    /\ last'.attempted = last.attempted
                    /\ last'.raised = last.raised]_vars

\* A create_all right after a create_all issued calls again.
C9_Witness ==
    /\ last.op = "create_all"
    /\ last.rerun
    /\ last.calls # <<>>
    /\ Len(create_list) >= 2

\* C10: a Provider is applied whatever its config: when the first registered
\* resource is a Provider, create_all issues CreateProvider for it.
C10_AnyProviderApplied ==
    (last.op = "create_all" /\ create_list # <<>> /\ create_list[1].class = "Provider")
       => /\ last.calls # <<>>
          /\ last.calls[1].rpc = "CreateProvider"
          /\ last.calls[1].resource = create_list[1]

\* C11: sorted_list changes neither the uniqueness map nor the creation
\* sequence, so whatever stub a later create_all is given, it attempts the
\* same resources and issues the same calls as it would have without the
\* sorted_list call.
C11_SortedListPureRead ==
    [][last'.op = "sorted_list"
         => /\ state' = state
            /\ create_list' = create_list
            /\ \A stub \in Stubs :
                  create_all(state', create_list', stub).observed
                     = create_all(state, create_list, stub).observed]_vars

\* sorted_list returned a list ordered otherwise than the creation sequence,
\* which still stands as it was added.
C11_Witness ==
    /\ last.op = "sorted_list"
    /\ Len(create_list) >= 2
    /\ last.result # create_list
    /\ type(create_list[1]) = "source"
    /\ type(last.result[1]) = "user"

\* Resource r references resource q by name: a Source or Feature its Provider,
\* a Feature or Label its Entity, a TrainingSet its Label and its Features.
References(r, q) ==
    \/ q.class = "Provider" /\ r.class \in {"Source", "Feature"} /\ r.provider = q.name
    \/ q.class = "Entity" /\ r.class \in {"Feature", "Label"} /\ r.entity = q.name
    \/ q.class = "Feature" /\ r.class = "TrainingSet"
         /\ <<q.name, q.variant>> \in Elements(r.features)
    \/ q.class = "Label" /\ r.class = "TrainingSet" /\ <<q.name, q.variant>> = r.label

\* C12: in the list sorted_list returns, a resource comes after every listed
\* resource it references by name, and nothing follows a TrainingSet but
\* TrainingSets.
C12_ReferencedFirst ==
    last.op = "sorted_list" =>
       \A i, j \in 1..Len(last.result) :
          /\ References(last.result[j], last.result[i]) => i < j
          /\ (last.result[i].class = "TrainingSet" /\ i < j)
                => last.result[j].class = "TrainingSet"

\* A TrainingSet, the Label it names and the Entity the Label names were added
\* in that order and listed in the reverse one.
C12_Witness ==
    /\ last.op = "sorted_list"
    /\ Len(last.result) = 3
    /\ Len(create_list) = 3
    /\ create_list[1].class = "TrainingSet"
    /\ References(create_list[1], create_list[2])
    /\ References(create_list[2], create_list[3])
    /\ last.result = <<create_list[3], create_list[2], create_list[1]>>

\* C13: a create_all run on n resources attempts each resource at most once,
\* in order and without retry (so at most n attempts and calls), and ends in
\* one of two ways: it returns having attempted all n, or it raises on the
\* first failure that is not "already exists".
C13_CompletesOrAbortsOnFirstFailure ==
    last.op = "create_all" =>
       /\ Len(last.attempted) <= Len(create_list)
       /\ last.attempted = SubSeq(create_list, 1, Len(last.attempted))
       /\ Len(last.calls) <= Len(last.attempted)
       /\ \A c, d \in 1..Len(last.calls) :
             c # d => last.calls[c].resource # last.calls[d].resource
       /\ \/ last.raised = "none" /\ last.attempted = create_list
          \/ /\ last.raised # "none"
             /\ \A c \in 1..Len(last.calls) :
                   last.calls[c].outcome \notin {"ok", "ALREADY_EXISTS"}
                      => last.calls[c].resource = last.attempted[Len(last.attempted)]

\* C14: the uniqueness map and the creation sequence agree: the sequence has
\* as many entries as the map, no two of its resources share (kind, name),
\* every key is the (kind, name) of the resource it maps to, and the sequence
\* holds exactly the map's values, which are what sorted_list returns.
C14_MapAndSequenceAgree ==
    /\ Len(create_list) = Cardinality(DOMAIN state)
    /\ \A i, j \in 1..Len(create_list) :
          i # j => <<type(create_list[i]), create_list[i].name>>
                     # <<type(create_list[j]), create_list[j].name>>
    /\ \A k \in DOMAIN state : k = <<type(state[k]), state[k].name>>
    /\ Elements(create_list) = {state[k] : k \in DOMAIN state}
    /\ Len(sorted_list(state)) = Len(create_list)
    /\ Elements(sorted_list(state)) = Elements(create_list)

\* A full registry, listed in another order than it was filled, has just
\* rejected a redefinition.
C14_Witness ==
    /\ last.op = "add"
    /\ last.raised = "ResourceRedefinedError"
    /\ Len(create_list) = MaxResources
    /\ Cardinality(DOMAIN state) = MaxResources
    /\ sorted_list(state) # create_list

====
